---- MODULE Spec2Model ----
(***************************************************************************)
(* App Attest verification core of MobiScale (appattest-rs):               *)
(*   Assertion::verify, Attestation::verify_certificates,                  *)
(*   Attestation::extract_nonce_from_cert, Attestation::verify and the     *)
(*   caller's "read counter -> verify -> persist counter" unit.            *)
(* Byte strings are sequences of 0..255.  Base64 text is a sequence of     *)
(* alphabet positions 0..63, with Pad for '=' and BadSym for a character   *)
(* outside the alphabet.                                                   *)
(***************************************************************************)
EXTENDS Integers, Sequences, FiniteSets, TLC

VARIABLES store, accepted, call

vars == <<store, accepted, call>>

(***************************************************************************)
(* Bounds of the model                                                     *)
(***************************************************************************)
MaxCounter == 3

MaxChain == 2

MaxTime == 3

(***************************************************************************)
(* Result<T, E>                                                            *)
(***************************************************************************)
Ok(v) == [tag |-> "Ok", err |-> "", value |-> v]

Err(e) == [tag |-> "Err", err |-> e, value |-> <<>>]

Panic == [tag |-> "Panic", err |-> "index out of range", value |-> <<>>]

IsOk(r) == r.tag = "Ok"

IsErr(r, e) == r.tag = "Err" /\ r.err = e

\* Option<bool>: None or Some(b)
OptionBool == {"None", "SomeTrue", "SomeFalse"}

unwrap_or(opt, default) == IF opt = "None" THEN default ELSE opt = "SomeTrue"

(***************************************************************************)
(* Error values.  The enum variants are the ones the source constructs;    *)
(* an AppAttestError::Message carries its text.                            *)
(***************************************************************************)
InvalidCounter == "InvalidCounter"

InvalidSignature == "InvalidSignature"

InvalidPublicKey == "InvalidPublicKey"

InvalidNonce == "InvalidNonce"

InvalidAAGUID == "InvalidAAGUID"

ExpectedASN1Node == "ExpectedASN1Node"

FailedToExtractValueFromASN1Node == "FailedToExtractValueFromASN1Node"

ClientDataDecodeFailed == "Message(failed to decode client data)"

PublicKeyParseFailed == "Message(failed to parse the public key)"

SignatureFormatInvalid == "Message(invalid signature format)"

EmptyChain == "Message(certificate list is empty)"

CertificateParseFailed == "Message(failed to parse certificate)"

InvalidCurrentTime == "Message(invalid current time)"

Expired == "Message(certificate expired / not yet valid)"

IssuerMismatch == "Message(issuer DN mismatch)"

SignatureInvalid == "Message(signature verification failed)"

ChallengeDecodeFailed == "Message(Failed to decode Base64 challenge)"

CredCertParseFailed == "Message(invalid Cred certificate DER)"

KeyIdDecodeFailed == "Message(key id base64 decode error)"

ExtensionNotFound == "Message(Certificate did not contain credCert extension)"

\* errors of the authenticator module
Truncated == "Truncated"

AppIdMismatch == "AppIdMismatch"

KeyIdMismatch == "KeyIdMismatch"

(***************************************************************************)
(* Standard Base64 (general_purpose::STANDARD): canonical padding, no      *)
(* trailing bits.                                                          *)
(***************************************************************************)
Pad == 64

BadSym == 65

RECURSIVE B64DecodeGroups(_)
B64DecodeGroups(s) ==
    IF Len(s) = 0 THEN <<>>
    ELSE LET a == s[1]
             b == s[2]
             c == s[3]
             d == s[4]
             rest == SubSeq(s, 5, Len(s))
         IN  IF c = Pad
             THEN << a * 4 + (b \div 16) >>
             ELSE IF d = Pad
             THEN << a * 4 + (b \div 16), (b % 16) * 16 + (c \div 4) >>
             ELSE << a * 4 + (b \div 16), (b % 16) * 16 + (c \div 4), (c % 4) * 64 + d >>
                  \o B64DecodeGroups(rest)

B64WellFormed(s) ==
    /\ Len(s) % 4 = 0
    /\ \A i \in 1..Len(s) : s[i] # BadSym
    /\ \A i \in 1..Len(s) : s[i] = Pad => i >= Len(s) - 1
    /\ Len(s) > 0 =>
         /\ s[Len(s) - 1] = Pad => s[Len(s)] = Pad
         /\ s[Len(s)] = Pad /\ s[Len(s) - 1] # Pad => s[Len(s) - 1] % 4 = 0
         /\ s[Len(s) - 1] = Pad => s[Len(s) - 2] # Pad /\ s[Len(s) - 2] % 16 = 0

Base64Decode(s) == IF B64WellFormed(s) THEN Ok(B64DecodeGroups(s)) ELSE Err("DecodeError")

RECURSIVE Base64Encode(_)
Base64Encode(b) ==
    IF Len(b) = 0 THEN <<>>
    ELSE IF Len(b) = 1 THEN << b[1] \div 4, (b[1] % 4) * 16, Pad, Pad >>
    ELSE IF Len(b) = 2
    THEN << b[1] \div 4, (b[1] % 4) * 16 + (b[2] \div 16), (b[2] % 16) * 4, Pad >>
    ELSE << b[1] \div 4, (b[1] % 4) * 16 + (b[2] \div 16),
            (b[2] % 16) * 4 + (b[3] \div 64), b[3] % 64 >>
         \o Base64Encode(SubSeq(b, 4, Len(b)))

(***************************************************************************)
(* SHA-256: a 32-byte digest computed from every byte of the input.        *)
(***************************************************************************)
DigestLen == 32

\* the hash of the bytes b[lo..hi], combined pairwise from the two halves
RECURSIVE Absorb(_, _, _)
Absorb(b, lo, hi) ==
    IF lo > hi THEN 7
    ELSE IF lo = hi THEN (b[lo] * 31 + lo + 1) % 251
    ELSE LET mid == (lo + hi) \div 2
         IN  (Absorb(b, lo, mid) * 31 + Absorb(b, mid + 1, hi) * 17 + 1) % 251

Sha256(b) == LET h == Absorb(b, 1, Len(b)) IN [i \in 1..DigestLen |-> (h + i) % 256]

(***************************************************************************)
(* Authenticator data (module authenticator): fixed layout                 *)
(*   rp_id_hash[0:32] | flags[32] | counter[33:37] and, when bit 6 of      *)
(*   flags is set, aaguid[37:53] | credential_id_length[53:55] |           *)
(*   credential_id | credential_public_key.                                *)
(***************************************************************************)
AuthDataMinLen == 37

AttestedDataMinLen == 55

AttestedCredentialFlag == 64

BE32(n) == << (n \div 16777216) % 256, (n \div 65536) % 256, (n \div 256) % 256, n % 256 >>

FromBE32(b) == b[1] * 16777216 + b[2] * 65536 + b[3] * 256 + b[4]

BE16(n) == << (n \div 256) % 256, n % 256 >>

FromBE16(b) == b[1] * 256 + b[2]

HasAttestedCredential(flags) == (flags \div AttestedCredentialFlag) % 2 = 1

AuthenticatorData_new(raw) ==
    IF Len(raw) < AuthDataMinLen THEN Err(Truncated)
    ELSE LET base == [bytes |-> raw,
                      rp_id_hash |-> SubSeq(raw, 1, 32),
                      flags |-> raw[33],
                      counter |-> FromBE32(SubSeq(raw, 34, 37))]
         IN  IF ~HasAttestedCredential(raw[33])
             THEN Ok(base @@ [has_credential |-> FALSE, aaguid |-> <<>>, credential_id |-> <<>>])
             ELSE IF Len(raw) < AttestedDataMinLen THEN Err(Truncated)
             ELSE LET idLen == FromBE16(SubSeq(raw, 54, 55))
                  IN  IF AttestedDataMinLen + idLen > Len(raw) THEN Err(Truncated)
                      ELSE Ok(base @@ [has_credential |-> TRUE,
                                       aaguid |-> SubSeq(raw, 38, 53),
                                       credential_id |-> SubSeq(raw, 56, 55 + idLen)])

verify_app_id(auth_data, app_id) ==
    IF Sha256(app_id) = auth_data.rp_id_hash THEN Ok(<<>>) ELSE Err(AppIdMismatch)

verify_counter(auth_data) ==
    IF auth_data.counter = 0 THEN Ok(<<>>) ELSE Err(InvalidCounter)

\* "appattest" followed by seven zero bytes
ProductionAAGUID == <<97, 112, 112, 97, 116, 116, 101, 115, 116, 0, 0, 0, 0, 0, 0, 0>>

\* "appattestdevelop"
DevelopmentAAGUID == <<97, 112, 112, 97, 116, 116, 101, 115, 116, 100, 101, 118, 101, 108, 111, 112>>

is_valid_aaguid(auth_data, dev_env) ==
    auth_data.aaguid = (IF dev_env THEN DevelopmentAAGUID ELSE ProductionAAGUID)

verify_key_id(auth_data, key_id) ==
    IF auth_data.credential_id = key_id THEN Ok(<<>>) ELSE Err(KeyIdMismatch)

\* the byte buffer an authenticator produces for the given fields
EncodeAssertionAuthData(rp_id_hash, counter) == rp_id_hash \o <<0>> \o BE32(counter)

EncodeAttestationAuthData(rp_id_hash, counter, aaguid, credential_id) ==
    rp_id_hash \o <<AttestedCredentialFlag>> \o BE32(counter) \o aaguid
        \o BE16(Len(credential_id)) \o credential_id

(***************************************************************************)
(* P-256 keys and ECDSA signatures (crate p256).  A key pair is named by   *)
(* a number; the signature of a message under a key is a pair (r, s) of    *)
(* 32-byte field elements that depends on the key and on the message.      *)
(***************************************************************************)
Keys == {1, 2}

Coordinate(k, which) == [i \in 1..32 |-> (k * 16 + which + i) % 256]

\* encoded_point.x() / .y()
PublicKeyX(k) == Coordinate(k, 1)

PublicKeyY(k) == Coordinate(k, 2)

\* subject_public_key.data: the uncompressed point 04 || X || Y
PublicKeyBytes(k) == <<4>> \o PublicKeyX(k) \o PublicKeyY(k)

Sign(k, msg) == [der_ok |-> TRUE, r |-> Sha256(<<k, 1>> \o msg), s |-> Sha256(<<k, 2>> \o msg)]

MalformedSignature == [der_ok |-> FALSE, r |-> <<>>, s |-> <<>>]

\* ecdsa::Signature::from_der
Signature_from_der(bytes) ==
    IF bytes.der_ok THEN Ok([r |-> bytes.r, s |-> bytes.s]) ELSE Err(SignatureFormatInvalid)

\* the width of a P-256 field element or scalar in bytes
FieldBytesLen == 32

\* mutation: the integer is returned as DER holds it, without leading zeros
to_bytes_Unpadded(scalar) == scalar

\* signature.r().to_bytes(): the big-endian integer at its full width; DER holds
\* the integer without its leading zero bytes
to_bytes(scalar) ==
    [i \in 1..FieldBytesLen |->
        IF i <= FieldBytesLen - Len(scalar) THEN 0 ELSE scalar[i - (FieldBytesLen - Len(scalar))]]

\* a well-formed DER signature whose integers are short
SmallSignature == [der_ok |-> TRUE, r |-> <<1>>, s |-> <<2, 3>>]

\* VerifyingKey::from_public_key_pem
VerifyingKey_from_public_key_pem(pem) ==
    IF pem.pem_ok THEN Ok(pem.key) ELSE Err(PublicKeyParseFailed)

\* verifying_key.verify(msg, &signature).is_ok()
EcdsaVerify(k, msg, sig) == sig.r = Sha256(<<k, 1>> \o msg) /\ sig.s = Sha256(<<k, 2>> \o msg)

(***************************************************************************)
(* Assertion::verify                                                       *)
(***************************************************************************)
AssertionNonce(raw_authenticator_data, client_data_byte) ==
    Sha256(raw_authenticator_data \o Sha256(client_data_byte))

\* mutation: the comparison lets an equal counter through
CounterRejected_Strict(counter, previous_counter) == counter < previous_counter

\* mutation: the counter is compared with zero, not with the previous value
CounterRejected_AgainstZero(counter, previous_counter) == counter <= 0

CounterRejected(counter, previous_counter) == counter <= previous_counter

\* mutation: an omitted toggle switches the signature check off
SignatureChecked_DefaultOff(verify_signature) == unwrap_or(verify_signature, FALSE)

SignatureChecked(verify_signature) == unwrap_or(verify_signature, TRUE)

\* mutation: the counter is checked before the app id
AssertionIdentityChecks_CounterFirst(auth_data, app_id, previous_counter) ==
    IF CounterRejected(auth_data.counter, previous_counter) THEN Err(InvalidCounter)
    ELSE IF ~IsOk(verify_app_id(auth_data, app_id)) THEN Err(AppIdMismatch)
    ELSE Ok(<<>>)

\* steps 4 and 5 of the source: app id, then counter
AssertionIdentityChecks(auth_data, app_id, previous_counter) ==
    IF ~IsOk(verify_app_id(auth_data, app_id)) THEN Err(AppIdMismatch)
    ELSE IF CounterRejected(auth_data.counter, previous_counter) THEN Err(InvalidCounter)
    ELSE Ok(<<>>)

AssertionVerify(self, base64_client_data, app_id, public_key, previous_counter, verify_signature) ==
    LET client_data_byte == Base64Decode(base64_client_data)
        auth_data == AuthenticatorData_new(self.raw_authenticator_data)
        verifying_key == VerifyingKey_from_public_key_pem(public_key)
        nonce_hash == AssertionNonce(auth_data.value.bytes, client_data_byte.value)
        signature == Signature_from_der(self.signature)
        identity == AssertionIdentityChecks(auth_data.value, app_id, previous_counter)
    IN  IF ~IsOk(client_data_byte) THEN Err(ClientDataDecodeFailed)
        ELSE IF ~IsOk(auth_data) THEN Err(auth_data.err)
        ELSE IF ~IsOk(verifying_key) THEN Err(PublicKeyParseFailed)
        ELSE IF ~IsOk(signature) THEN Err(SignatureFormatInvalid)
        ELSE IF SignatureChecked(verify_signature)
                /\ ~EcdsaVerify(verifying_key.value, nonce_hash, signature.value)
             THEN Err(InvalidSignature)
        ELSE IF ~IsOk(identity) THEN identity
        ELSE Ok(<< to_bytes(signature.value.r), to_bytes(signature.value.s),
                   PublicKeyX(verifying_key.value), PublicKeyY(verifying_key.value) >>)

(***************************************************************************)
(* X.509 certificates (crate x509-parser).  A DER certificate is the       *)
(* record of what parse_x509_certificate reads from it; der_ok = FALSE is  *)
(* a byte string that does not parse.  signed_by names the key that made   *)
(* the certificate's signature, key the subject's own key pair.            *)
(***************************************************************************)
CredCertOid == "1.2.840.113635.100.8.2"

Certificate(subject, issuer, not_before, not_after, signed_by, key, extensions) ==
    [der_ok |-> TRUE, subject |-> subject, issuer |-> issuer,
     not_before |-> not_before, not_after |-> not_after,
     signed_by |-> signed_by, key |-> key, extensions |-> extensions]

MalformedCertificate ==
    [der_ok |-> FALSE, subject |-> "", issuer |-> "", not_before |-> 0, not_after |-> 0,
     signed_by |-> 0, key |-> 0, extensions |-> <<>>]

parse_x509_certificate(der) == IF der.der_ok THEN Ok(der) ELSE Err(CertificateParseFailed)

\* ASN1Time::from_timestamp: MaxTime stands for the last representable second
ASN1Time_from_timestamp(time) == IF time <= MaxTime THEN Ok(time) ELSE Err(InvalidCurrentTime)

\* mutation: only the end of the validity window is checked
is_valid_at_NotAfterOnly(cert, now) == now <= cert.not_after

is_valid_at(cert, now) == cert.not_before <= now /\ now <= cert.not_after

\* the check of the certificate's signature with the issuer's public key
SignatureVerifies(cert, issuer) == cert.signed_by = issuer.key

(***************************************************************************)
(* Attestation::verify_certificates                                        *)
(***************************************************************************)
\* number of calls of parse_x509_certificate made by the parsing loop
RECURSIVE ParsedCount(_)
ParsedCount(cert_chain) ==
    IF Len(cert_chain) = 0 THEN 0
    ELSE IF ~cert_chain[1].der_ok THEN 1
    ELSE 1 + ParsedCount(SubSeq(cert_chain, 2, Len(cert_chain)))

AllParse(cert_chain) == \A i \in 1..Len(cert_chain) : cert_chain[i].der_ok

\* mutation: every certificate is compared with the root
IssuerOf_AlwaysRoot(parsed, root_cert, idx) == root_cert

\* issuer of parsed[idx]: the next certificate of the vector or the root
IssuerOf(parsed, root_cert, idx) == IF idx + 1 <= Len(parsed) THEN parsed[idx + 1] ELSE root_cert

\* the walk of the chain, leaf to root; the source prepares the bytes of the
\* signature check and leaves the check itself commented out
RECURSIVE WalkChain(_, _, _, _)
WalkChain(parsed, root_cert, now_asn1, idx) ==
    IF idx > Len(parsed) THEN Ok(<<>>)
    ELSE LET cert == parsed[idx]
             issuer == IssuerOf(parsed, root_cert, idx)
         IN  IF ~is_valid_at(cert, now_asn1) THEN Err(Expired)
             ELSE IF cert.issuer # issuer.subject THEN Err(IssuerMismatch)
             ELSE WalkChain(parsed, root_cert, now_asn1, idx + 1)

\* mutation: an empty chain is taken as valid
verify_certificates_EmptyAccepted(cert_chain, root_cert, time) ==
    IF Len(cert_chain) = 0 THEN Ok(<<>>)
    ELSE IF ~AllParse(cert_chain) THEN Err(CertificateParseFailed)
    ELSE LET now_asn1 == ASN1Time_from_timestamp(time)
         IN  IF ~IsOk(now_asn1) THEN Err(InvalidCurrentTime)
             ELSE WalkChain(cert_chain, root_cert, now_asn1.value, 1)

\* mutation: the emptiness check is missing
verify_certificates_NoEmptyCheck(cert_chain, root_cert, time) ==
    IF ~AllParse(cert_chain) THEN Err(CertificateParseFailed)
    ELSE LET now_asn1 == ASN1Time_from_timestamp(time)
         IN  IF ~IsOk(now_asn1) THEN Err(InvalidCurrentTime)
             ELSE WalkChain(cert_chain, root_cert, now_asn1.value, 1)

verify_certificates(cert_chain, root_cert, time) ==
    IF Len(cert_chain) = 0 THEN Err(EmptyChain)
    ELSE IF ~AllParse(cert_chain) THEN Err(CertificateParseFailed)
    ELSE LET now_asn1 == ASN1Time_from_timestamp(time)
         IN  IF ~IsOk(now_asn1) THEN Err(InvalidCurrentTime)
             ELSE WalkChain(cert_chain, root_cert, now_asn1.value, 1)

\* certificates handed to parse_x509_certificate before the call returns
verify_certificates_parsed(cert_chain) ==
    IF Len(cert_chain) = 0 THEN 0 ELSE ParsedCount(cert_chain)

(***************************************************************************)
(* Attestation::extract_nonce_from_cert.  An extension value is the BER    *)
(* object parse_ber reads from it: ber = "invalid" does not parse,         *)
(* "sequence" carries its elements, anything else is another object.  An   *)
(* element is context-tagged (BerObjectContent::Unknown) or not, and       *)
(* carries its content bytes.                                              *)
(***************************************************************************)
NonceOffset == 2

BerSequence(elements) == [ber |-> "sequence", elements |-> elements]

BerInvalid == [ber |-> "invalid", elements |-> <<>>]

BerOctetString == [ber |-> "octetstring", elements |-> <<>>]

BerElement(unknown, data) == [unknown |-> unknown, data |-> data]

Extension(oid, value) == [oid |-> oid, value |-> value]

\* the credCert extension Apple issues: SEQUENCE { [1] { OCTET STRING nonce } }
CredCertExtension(nonce) ==
    Extension(CredCertOid, BerSequence(<< BerElement(TRUE, <<4, Len(nonce)>> \o nonce) >>))

\* mutation: the first extension is taken, whatever its object identifier
FindExtension_AnyOid(extensions, oid) ==
    IF Len(extensions) = 0 THEN Err(ExtensionNotFound) ELSE Ok(extensions[1].value)

\* extensions.iter().find(|ext| ext.oid == cred_cert_oid)
RECURSIVE FindExtension(_, _)
FindExtension(extensions, oid) ==
    IF Len(extensions) = 0 THEN Err(ExtensionNotFound)
    ELSE IF extensions[1].oid = oid THEN Ok(extensions[1].value)
    ELSE FindExtension(SubSeq(extensions, 2, Len(extensions)), oid)

\* for obj in seq: the first Unknown element decides
RECURSIVE FirstUnknown(_)
FirstUnknown(seq) ==
    IF Len(seq) = 0 THEN Err(FailedToExtractValueFromASN1Node)
    ELSE IF seq[1].unknown
         THEN IF Len(seq[1].data) < NonceOffset THEN Panic
              ELSE Ok(SubSeq(seq[1].data, NonceOffset + 1, Len(seq[1].data)))
    ELSE FirstUnknown(SubSeq(seq, 2, Len(seq)))

extract_nonce_from_cert(cert_der) ==
    LET cert == parse_x509_certificate(cert_der)
        extension_value == FindExtension(cert.value.extensions, CredCertOid)
    IN  IF ~IsOk(cert) THEN Err(CertificateParseFailed)
        ELSE IF ~IsOk(extension_value) THEN Err(ExtensionNotFound)
        ELSE IF extension_value.value.ber = "invalid" THEN Err(ExpectedASN1Node)
        ELSE IF extension_value.value.ber = "sequence"
             THEN FirstUnknown(extension_value.value.elements)
        ELSE Err(ExpectedASN1Node)

(***************************************************************************)
(* Attestation::nonce_hash, verify_public_key_hash, verify                 *)
(***************************************************************************)
nonce_hash(auth_data, client_data_hash) == Sha256(auth_data \o client_data_hash)

\* mutation: the hash of the key is not compared with the key identifier
verify_public_key_hash_Unchecked(cert, key_identifier) == << PublicKeyBytes(cert.key), TRUE >>

verify_public_key_hash(cert, key_identifier) ==
    LET pub_key_bytes == PublicKeyBytes(cert.key)
        hash == Sha256(pub_key_bytes)
    IN  << pub_key_bytes, hash = key_identifier >>

\* the pinned root: certificates/Apple_App_Attestation_Root_CA.der
AppleRootKey == 1

AppleRoot == Certificate("Apple App Attestation Root CA", "Apple App Attestation Root CA",
                         0, MaxTime, AppleRootKey, AppleRootKey, <<>>)

\* mutation: the counter of the authenticator data is not checked
AttestationIdentityChecks_NoCounter(self, auth_data, app_id, key_id_decoded_bytes, dev_env, public_key_bytes) ==
    IF ~IsOk(verify_app_id(auth_data, app_id)) THEN Err(AppIdMismatch)
    ELSE IF ~is_valid_aaguid(auth_data, unwrap_or(dev_env, FALSE)) THEN Err(InvalidAAGUID)
    ELSE IF ~IsOk(verify_key_id(auth_data, key_id_decoded_bytes)) THEN Err(KeyIdMismatch)
    ELSE Ok(<< public_key_bytes, self.statement.receipt >>)

\* mutation: an omitted dev_env selects the development environment
AttestationIdentityChecks_DefaultDev(self, auth_data, app_id, key_id_decoded_bytes, dev_env, public_key_bytes) ==
    IF ~IsOk(verify_app_id(auth_data, app_id)) THEN Err(AppIdMismatch)
    ELSE IF ~IsOk(verify_counter(auth_data)) THEN Err(InvalidCounter)
    ELSE IF ~is_valid_aaguid(auth_data, unwrap_or(dev_env, TRUE)) THEN Err(InvalidAAGUID)
    ELSE IF ~IsOk(verify_key_id(auth_data, key_id_decoded_bytes)) THEN Err(KeyIdMismatch)
    ELSE Ok(<< public_key_bytes, self.statement.receipt >>)

\* the checks that come after the public-key hash and the nonce
AttestationIdentityChecks(self, auth_data, app_id, key_id_decoded_bytes, dev_env, public_key_bytes) ==
    IF ~IsOk(verify_app_id(auth_data, app_id)) THEN Err(AppIdMismatch)
    ELSE IF ~IsOk(verify_counter(auth_data)) THEN Err(InvalidCounter)
    ELSE IF ~is_valid_aaguid(auth_data, unwrap_or(dev_env, FALSE)) THEN Err(InvalidAAGUID)
    ELSE IF ~IsOk(verify_key_id(auth_data, key_id_decoded_bytes)) THEN Err(KeyIdMismatch)
    ELSE Ok(<< public_key_bytes, self.statement.receipt >>)

\* &self.statement.certificates[0]: indexing an empty vector panics
LeafCertificate(certificates) == IF Len(certificates) = 0 THEN Panic ELSE Ok(certificates[1])

AttestationVerify(self, base64_challenge, app_id, key_id, time, dev_env) ==
    LET challenge == Base64Decode(base64_challenge)
        chain == verify_certificates(self.statement.certificates, AppleRoot, time)
        auth_data == AuthenticatorData_new(self.auth_data)
        nonce == nonce_hash(auth_data.value.bytes, Sha256(challenge.value))
        leaf == LeafCertificate(self.statement.certificates)
        cred_cert == parse_x509_certificate(leaf.value)
        key_id_decoded_bytes == Base64Decode(key_id)
        public_key_bytes == verify_public_key_hash(cred_cert.value, key_id_decoded_bytes.value)
        extracted_nonce == extract_nonce_from_cert(leaf.value)
    IN  IF ~IsOk(challenge) THEN Err(ChallengeDecodeFailed)
        ELSE IF ~IsOk(chain) THEN chain
        ELSE IF ~IsOk(auth_data) THEN Err(auth_data.err)
        ELSE IF ~IsOk(leaf) THEN Panic
        ELSE IF ~IsOk(cred_cert) THEN Err(CredCertParseFailed)
        ELSE IF ~IsOk(key_id_decoded_bytes) THEN Err(KeyIdDecodeFailed)
        ELSE IF ~public_key_bytes[2] THEN Err(InvalidPublicKey)
        ELSE IF ~IsOk(extracted_nonce) THEN extracted_nonce
        ELSE IF extracted_nonce.value # nonce THEN Err(InvalidNonce)
        ELSE AttestationIdentityChecks(self, auth_data.value, app_id, key_id_decoded_bytes.value,
                                       dev_env, public_key_bytes[1])

(***************************************************************************)
(* prove_assertion: the four journal parts become the 32-byte arrays of    *)
(* SignatureData                                                           *)
(***************************************************************************)
\* <[u8; 32]>::try_from(slice)
try_into(slice) == IF Len(slice) = FieldBytesLen THEN Ok(slice) ELSE Err("TryFromSliceError")

\* the four try_into().unwrap() of prove_assertion
SignatureData(journal_parts) ==
    IF \A i \in 1..4 : IsOk(try_into(journal_parts[i]))
    THEN Ok([signature_r |-> try_into(journal_parts[1]).value,
             signature_s |-> try_into(journal_parts[2]).value,
             public_key_x |-> try_into(journal_parts[3]).value,
             public_key_y |-> try_into(journal_parts[4]).value])
    ELSE Panic

(***************************************************************************)
(* CBOR (crate ciborium) and the envelopes read from it.  A data item is   *)
(* the record of its kind and its value: the argument of an integer or a   *)
(* simple value, the bytes of a byte or text string, the items of an       *)
(* array, the key/value pairs of a map.  The head of an item holds its     *)
(* argument in the initial byte or in the byte that follows it; longer     *)
(* arguments, indefinite lengths and tags do not occur in the inputs and   *)
(* are read as malformed.                                                  *)
(***************************************************************************)
CborUint(n) == [kind |-> "uint", val |-> n]

CborBytes(b) == [kind |-> "bytes", val |-> b]

CborText(t) == [kind |-> "text", val |-> t]

CborArray(items) == [kind |-> "array", val |-> items]

CborMap(pairs) == [kind |-> "map", val |-> pairs]

\* the head of a data item: major type and argument
CborHead(major, n) == IF n < 24 THEN << major * 32 + n >> ELSE << major * 32 + 24, n >>

\* what the Serialize side of the envelope writes
RECURSIVE CborEncode(_), CborEncodeAll(_)
CborEncode(item) ==
    IF item.kind = "uint" THEN CborHead(0, item.val)
    ELSE IF item.kind = "bytes" THEN CborHead(2, Len(item.val)) \o item.val
    ELSE IF item.kind = "text" THEN CborHead(3, Len(item.val)) \o item.val
    ELSE IF item.kind = "array" THEN CborHead(4, Len(item.val)) \o CborEncodeAll(item.val)
    ELSE CborHead(5, Len(item.val))
             \o CborEncodeAll([i \in 1..(2 * Len(item.val)) |->
                                  item.val[(i + 1) \div 2][IF i % 2 = 1 THEN 1 ELSE 2]])

CborEncodeAll(items) ==
    IF Len(items) = 0 THEN <<>>
    ELSE CborEncode(items[1]) \o CborEncodeAll(SubSeq(items, 2, Len(items)))

NoItem == [ok |-> FALSE, item |-> [kind |-> "none", val |-> 0], next |-> 0]

\* the data item that starts at b[pos], and the position behind it
RECURSIVE ParseItem(_, _), ParseItems(_, _, _)
ParseItem(b, pos) ==
    IF pos > Len(b) THEN NoItem
    ELSE LET major == b[pos] \div 32
             info == b[pos] % 32
             arg == IF info < 24 THEN info ELSE IF pos + 1 <= Len(b) THEN b[pos + 1] ELSE 0
             body == IF info < 24 THEN pos + 1 ELSE pos + 2
         IN  IF info > 24 \/ (info = 24 /\ pos + 1 > Len(b)) THEN NoItem
             ELSE IF major = 0 THEN [ok |-> TRUE, item |-> CborUint(arg), next |-> body]
             ELSE IF major \in {2, 3}
                  THEN IF body + arg - 1 > Len(b) THEN NoItem
                       ELSE [ok |-> TRUE,
                             item |-> [kind |-> IF major = 2 THEN "bytes" ELSE "text",
                                       val |-> SubSeq(b, body, body + arg - 1)],
                             next |-> body + arg]
             ELSE IF major = 4
                  THEN LET elements == ParseItems(b, body, arg)
                       IN  IF ~elements.ok THEN NoItem
                           ELSE [ok |-> TRUE, item |-> CborArray(elements.items),
                                 next |-> elements.next]
             ELSE IF major = 5
                  THEN LET entries == ParseItems(b, body, 2 * arg)
                       IN  IF ~entries.ok THEN NoItem
                           ELSE [ok |-> TRUE,
                                 item |-> CborMap([i \in 1..arg |->
                                             << entries.items[2 * i - 1], entries.items[2 * i] >>]),
                                 next |-> entries.next]
             ELSE IF major = 7 THEN [ok |-> TRUE, item |-> [kind |-> "simple", val |-> arg],
                                     next |-> body]
             ELSE NoItem

ParseItems(b, pos, n) ==
    IF n = 0 THEN [ok |-> TRUE, items |-> <<>>, next |-> pos]
    ELSE LET first == ParseItem(b, pos)
             rest == ParseItems(b, first.next, n - 1)
         IN  IF ~first.ok \/ ~rest.ok THEN [ok |-> FALSE, items |-> <<>>, next |-> 0]
             ELSE [ok |-> TRUE, items |-> << first.item >> \o rest.items, next |-> rest.next]

\* the names of the fields, #[serde(rename = "...")], in ASCII
FieldName ==
    [authenticatorData |->
         <<97, 117, 116, 104, 101, 110, 116, 105, 99, 97, 116, 111, 114, 68, 97, 116, 97>>,
     signature |-> <<115, 105, 103, 110, 97, 116, 117, 114, 101>>,
     attStmt |-> <<97, 116, 116, 83, 116, 109, 116>>,
     x5c |-> <<120, 53, 99>>,
     receipt |-> <<114, 101, 99, 101, 105, 112, 116>>,
     authData |-> <<97, 117, 116, 104, 68, 97, 116, 97>>]

DeserializeFailed == "invalid type, missing field or duplicate field"

\* Vec<u8>: a byte string, or an array of integers below 256
DeserializeBytes(item) ==
    IF item.kind = "bytes" THEN Ok(item.val)
    ELSE IF item.kind = "array" /\ \A i \in 1..Len(item.val) : item.val[i].kind = "uint"
         THEN Ok([i \in 1..Len(item.val) |-> item.val[i].val])
    ELSE Err(DeserializeFailed)

\* Vec<Vec<u8>>: an array of byte vectors; an empty byte string has no elements
DeserializeBytesList(item) ==
    IF item.kind = "array" /\ \A i \in 1..Len(item.val) : IsOk(DeserializeBytes(item.val[i]))
    THEN Ok([i \in 1..Len(item.val) |-> DeserializeBytes(item.val[i]).value])
    ELSE IF item.kind = "bytes" /\ Len(item.val) = 0 THEN Ok(<<>>)
    ELSE Err(DeserializeFailed)

\* the keys of a struct's map are text or byte strings
KeysAreIdentifiers(pairs) == \A i \in 1..Len(pairs) : pairs[i][1].kind \in {"text", "bytes"}

FieldPositions(pairs, name) == {i \in 1..Len(pairs) : pairs[i][1].val = name}

\* mutation: a field that is missing takes the default of its type
StructField_Defaulted(pairs, name) ==
    IF FieldPositions(pairs, name) = {} THEN Ok(CborBytes(<<>>))
    ELSE IF Cardinality(FieldPositions(pairs, name)) = 1
         THEN Ok(pairs[CHOOSE i \in FieldPositions(pairs, name) : TRUE][2])
    ELSE Err(DeserializeFailed)

\* the value of a field of a derived struct: present exactly once
StructField(pairs, name) ==
    IF Cardinality(FieldPositions(pairs, name)) = 1
    THEN Ok(pairs[CHOOSE i \in FieldPositions(pairs, name) : TRUE][2])
    ELSE Err(DeserializeFailed)

\* #[derive(Deserialize)] struct Assertion
Assertion_deserialize(item) ==
    IF item.kind # "map" \/ ~KeysAreIdentifiers(item.val) THEN Err(DeserializeFailed)
    ELSE LET authenticatorData == StructField(item.val, FieldName.authenticatorData)
             signature == StructField(item.val, FieldName.signature)
         IN  IF ~IsOk(authenticatorData) \/ ~IsOk(signature) THEN Err(DeserializeFailed)
             ELSE IF ~IsOk(DeserializeBytes(authenticatorData.value))
                     \/ ~IsOk(DeserializeBytes(signature.value))
                  THEN Err(DeserializeFailed)
             ELSE Ok([raw_authenticator_data |-> DeserializeBytes(authenticatorData.value).value,
                      signature |-> DeserializeBytes(signature.value).value])

\* #[derive(Deserialize)] struct Statement
Statement_deserialize(item) ==
    IF item.kind # "map" \/ ~KeysAreIdentifiers(item.val) THEN Err(DeserializeFailed)
    ELSE LET x5c == StructField(item.val, FieldName.x5c)
             receipt == StructField(item.val, FieldName.receipt)
         IN  IF ~IsOk(x5c) \/ ~IsOk(receipt) THEN Err(DeserializeFailed)
             ELSE IF ~IsOk(DeserializeBytesList(x5c.value))
                     \/ ~IsOk(DeserializeBytes(receipt.value))
                  THEN Err(DeserializeFailed)
             ELSE Ok([certificates |-> DeserializeBytesList(x5c.value).value,
                      receipt |-> DeserializeBytes(receipt.value).value])

\* #[derive(Deserialize)] struct Attestation
Attestation_deserialize(item) ==
    IF item.kind # "map" \/ ~KeysAreIdentifiers(item.val) THEN Err(DeserializeFailed)
    ELSE LET attStmt == StructField(item.val, FieldName.attStmt)
             authData == StructField(item.val, FieldName.authData)
         IN  IF ~IsOk(attStmt) \/ ~IsOk(authData) THEN Err(DeserializeFailed)
             ELSE IF ~IsOk(Statement_deserialize(attStmt.value))
                     \/ ~IsOk(DeserializeBytes(authData.value))
                  THEN Err(DeserializeFailed)
             ELSE Ok([statement |-> Statement_deserialize(attStmt.value).value,
                      auth_data |-> DeserializeBytes(authData.value).value])

\* ciborium::de::from_reader: one data item is read from the front of the
\* bytes and handed to the struct's Deserialize
from_reader(decoded_bytes) ==
    LET parsed == ParseItem(decoded_bytes, 1)
    IN  IF ~parsed.ok THEN Err(DeserializeFailed) ELSE Ok(parsed.item)

Base64DecodeFailed == "Message(Failed to decode Base64: ...)"

AssertionParseFailed == "Message(unable to parse assertion)"

AttestationParseFailed == "Message(unable to parse base64 attestation)"

\* Assertion::from_base64; the signature field holds the DER bytes that
\* Signature_from_der reads
Assertion_from_base64(base64_assertion) ==
    LET decoded_bytes == Base64Decode(base64_assertion)
        item == from_reader(decoded_bytes.value)
        assertion_result == IF IsOk(item) THEN Assertion_deserialize(item.value) ELSE item
    IN  IF ~IsOk(decoded_bytes) THEN Err(Base64DecodeFailed)
        ELSE IF IsOk(assertion_result) THEN Ok(assertion_result.value)
        ELSE Err(AssertionParseFailed)

\* Attestation::from_base64
Attestation_from_base64(base64_attestation) ==
    LET decoded_bytes == Base64Decode(base64_attestation)
        item == from_reader(decoded_bytes.value)
        assertion_result == IF IsOk(item) THEN Attestation_deserialize(item.value) ELSE item
    IN  IF ~IsOk(decoded_bytes) THEN Err(Base64DecodeFailed)
        ELSE IF IsOk(assertion_result) THEN Ok(assertion_result.value)
        ELSE Err(AttestationParseFailed)

(***************************************************************************)
(* Inputs                                                                  *)
(***************************************************************************)
AppIds == {<<97>>, <<98>>}

ClientDatas == {<<120>>, <<121, 122>>}

InvalidBase64 == <<30, BadSym, 0, 0>>

Base64Texts(byteStrings) == {Base64Encode(b) : b \in byteStrings} \cup {InvalidBase64}

PublicKeyPem(k) == [pem_ok |-> TRUE, key |-> k]

MalformedPem == [pem_ok |-> FALSE, key |-> 0]

PublicKeyPems == {PublicKeyPem(k) : k \in Keys} \cup {MalformedPem}

AssertionAuthDatas ==
    {EncodeAssertionAuthData(Sha256(a), n) : a \in AppIds, n \in 0..MaxCounter}
        \cup {SubSeq(EncodeAssertionAuthData(Sha256(<<97>>), 1), 1, AuthDataMinLen - 1)}

AssertionSignatures(raw) ==
    {Sign(k, AssertionNonce(raw, cd)) : k \in Keys, cd \in ClientDatas}
        \cup {MalformedSignature, SmallSignature}

Assertions ==
    UNION {{[raw_authenticator_data |-> raw, signature |-> sig] : sig \in AssertionSignatures(raw)} :
              raw \in AssertionAuthDatas}

RootDN == "Apple App Attestation Root CA"

CaDN == "Apple App Attestation CA 1"

LeafDN == "credential"

CaKey == 2

OtherRoot == Certificate("Other Root CA", "Other Root CA", 0, MaxTime, CaKey, CaKey, <<>>)

Roots == {AppleRoot, OtherRoot}

Windows == {<<1, 2>>, <<2, 3>>}

Timestamps == 0..(MaxTime + 1)

ChainCertificates ==
    {Certificate(sub, iss, w[1], w[2], sb, IF sub = CaDN THEN CaKey ELSE 1, <<>>) :
        sub \in {LeafDN, CaDN}, iss \in {CaDN, RootDN}, w \in Windows, sb \in Keys}
        \cup {MalformedCertificate}

RECURSIVE SeqsUpTo(_, _)
SeqsUpTo(S, n) ==
    IF n = 0 THEN {<<>>}
    ELSE LET shorter == SeqsUpTo(S, n - 1)
         IN  shorter \cup {Append(q, x) : q \in {t \in shorter : Len(t) = n - 1}, x \in S}

Chains == SeqsUpTo(ChainCertificates, MaxChain)

KeyIdentifier(k) == Sha256(PublicKeyBytes(k))

AttestationAuthDatas ==
    {EncodeAttestationAuthData(Sha256(<<97>>), n, aaguid, KeyIdentifier(k)) :
        n \in {0, 1}, aaguid \in {ProductionAAGUID, DevelopmentAAGUID}, k \in Keys}
        \cup {SubSeq(EncodeAssertionAuthData(Sha256(<<97>>), 0), 1, AuthDataMinLen - 1)}

Challenges == {<<120>>}

\* extension lists of a credential certificate issued for the authenticator data
LeafExtensions(auth_data) ==
    {<< CredCertExtension(nonce_hash(auth_data, Sha256(ch))) >> : ch \in ClientDatas}
        \cup { <<>>,
               << Extension(CredCertOid, BerInvalid) >>,
               << Extension(CredCertOid, BerOctetString) >>,
               << Extension(CredCertOid, BerSequence(<< BerElement(FALSE, <<4, 0>>) >>)) >>,
               << Extension(CredCertOid, BerSequence(<< BerElement(TRUE, <<4>>) >>)) >> }

GoodCa == Certificate(CaDN, RootDN, 1, 3, AppleRootKey, CaKey, <<>>)

ForgedCa == Certificate(CaDN, RootDN, 1, 3, CaKey, CaKey, <<>>)

\* certificate lists of an attestation statement for the authenticator data
AttestationChains(auth_data) ==
    {<<>>, << MalformedCertificate >>}
        \cup UNION {{ << Certificate(LeafDN, RootDN, 1, 3, AppleRootKey, k, ext) >>,
                      << Certificate(LeafDN, CaDN, 1, 3, CaKey, k, ext) >>,
                      << Certificate(LeafDN, CaDN, 1, 3, CaKey, k, ext), GoodCa >>,
                      << Certificate(LeafDN, CaDN, 1, 3, CaKey, k, ext), ForgedCa >> } :
                        k \in Keys, ext \in LeafExtensions(auth_data)}

\* an object identifier other than the credCert one (basicConstraints)
OtherOid == "2.5.29.19"

\* the contents of a context-tagged element: none, one byte, the bare 2-byte
\* prefix, the prefix followed by a value
ElementDatas == {<<>>, <<4>>, <<4, 0>>, <<4, 1, 9>>}

\* what parse_ber can read from an extension value
ExtensionValues ==
    {BerInvalid, BerOctetString, BerSequence(<<>>),
     BerSequence(<< BerElement(FALSE, <<2, 1>>) >>),
     BerSequence(<< BerElement(FALSE, <<2, 1>>), BerElement(TRUE, <<4, 1, 9>>) >>),
     BerSequence(<< BerElement(FALSE, <<2, 1>>), BerElement(TRUE, <<4>>) >>),
     BerSequence(<< BerElement(TRUE, <<4, 1, 9>>), BerElement(TRUE, <<4, 1, 8>>) >>)}
        \cup {BerSequence(<< BerElement(TRUE, d) >>) : d \in ElementDatas}

ExtensionLists ==
    {<<>>}
        \cup {<< Extension(oid, v) >> : oid \in {OtherOid, CredCertOid}, v \in ExtensionValues}
        \cup {<< Extension(OtherOid, v), Extension(oid, w) >> :
                  oid \in {OtherOid, CredCertOid}, v \in ExtensionValues, w \in ExtensionValues}

\* the certificates handed to extract_nonce_from_cert
ExtractionCertificates ==
    {Certificate(LeafDN, CaDN, 1, 3, CaKey, 1, ext) : ext \in ExtensionLists}
        \cup {MalformedCertificate}

\* the envelopes a device encodes
AssertionEnvelopes ==
    {[raw_authenticator_data |-> <<1, 2, 3>>, signature |-> <<48, 0>>],
     [raw_authenticator_data |-> <<>>, signature |-> <<7>>]}

AttestationEnvelopes ==
    {[statement |-> [certificates |-> << <<48, 1>>, <<48, 2>> >>, receipt |-> <<9>>],
      auth_data |-> <<1, 2>>],
     [statement |-> [certificates |-> <<>>, receipt |-> <<>>], auth_data |-> <<5>>]}

\* a field of a map
CborField(name, item) == << CborText(name), item >>

\* a field no envelope has
UnknownField == CborField(<<122>>, CborUint(1))

\* the CBOR maps that hold every field of the assertion envelope: the fields
\* in either order, with a field the struct does not know, with the
\* authenticator data as an array of integers
CompleteAssertionItems(e) ==
    LET authenticatorData == CborField(FieldName.authenticatorData, CborBytes(e.raw_authenticator_data))
        signature == CborField(FieldName.signature, CborBytes(e.signature))
        asArray == CborField(FieldName.authenticatorData,
                             CborArray([i \in 1..Len(e.raw_authenticator_data) |->
                                           CborUint(e.raw_authenticator_data[i])]))
    IN  {CborMap(<< authenticatorData, signature >>),
         CborMap(<< signature, authenticatorData >>),
         CborMap(<< UnknownField, signature, authenticatorData >>),
         CborMap(<< asArray, signature >>)}

\* data items that are not a map with every field of the assertion envelope
\* (a field missing, of another type or given twice, a key that is no string,
\* an item that is no map)
MalformedAssertionItems ==
    {CborMap(<<>>),
     CborMap(<< CborField(FieldName.authenticatorData, CborBytes(<<1, 2, 3>>)) >>),
     CborMap(<< CborField(FieldName.signature, CborBytes(<<48, 0>>)) >>),
     CborMap(<< UnknownField, CborField(FieldName.signature, CborBytes(<<48, 0>>)) >>),
     CborMap(<< CborField(FieldName.authenticatorData, CborText(<<97>>)),
                CborField(FieldName.signature, CborBytes(<<48, 0>>)) >>),
     CborMap(<< CborField(FieldName.authenticatorData, CborBytes(<<1, 2, 3>>)),
                CborField(FieldName.signature, CborUint(7)) >>),
     CborMap(<< << CborUint(1), CborBytes(<<1, 2, 3>>) >>,
                CborField(FieldName.signature, CborBytes(<<48, 0>>)) >>),
     CborMap(<< CborField(FieldName.signature, CborBytes(<<48, 0>>)),
                CborField(FieldName.authenticatorData, CborBytes(<<1, 2, 3>>)),
                CborField(FieldName.signature, CborBytes(<<7>>)) >>),
     CborArray(<< CborBytes(<<1, 2, 3>>), CborBytes(<<48, 0>>) >>),
     CborBytes(<<1, 2, 3>>),
     CborUint(0)}

AttestationItem(x5c, receipt, authData) ==
    CborMap(<< CborField(FieldName.attStmt,
                         CborMap(<< CborField(FieldName.x5c, x5c), CborField(FieldName.receipt, receipt) >>)),
               CborField(FieldName.authData, authData) >>)

CertificateItems(e) ==
    CborArray([i \in 1..Len(e.statement.certificates) |-> CborBytes(e.statement.certificates[i])])

\* the CBOR maps that hold every field of the attestation envelope
CompleteAttestationItems(e) ==
    {AttestationItem(CertificateItems(e), CborBytes(e.statement.receipt), CborBytes(e.auth_data)),
     CborMap(<< CborField(FieldName.authData, CborBytes(e.auth_data)),
                UnknownField,
                CborField(FieldName.attStmt,
                          CborMap(<< CborField(FieldName.receipt, CborBytes(e.statement.receipt)),
                                     CborField(FieldName.x5c, CertificateItems(e)),
                                     UnknownField >>)) >>)}

\* data items that are not a map with every field of the attestation envelope
MalformedAttestationItems ==
    {CborMap(<<>>),
     CborMap(<< CborField(FieldName.authData, CborBytes(<<1, 2>>)) >>),
     CborMap(<< CborField(FieldName.attStmt,
                          CborMap(<< CborField(FieldName.x5c, CborArray(<<>>)),
                                     CborField(FieldName.receipt, CborBytes(<<9>>)) >>)) >>),
     CborMap(<< CborField(FieldName.attStmt, CborMap(<< CborField(FieldName.x5c, CborArray(<<>>)) >>)),
                CborField(FieldName.authData, CborBytes(<<1, 2>>)) >>),
     CborMap(<< CborField(FieldName.attStmt,
                          CborMap(<< CborField(FieldName.receipt, CborBytes(<<9>>)) >>)),
                CborField(FieldName.authData, CborBytes(<<1, 2>>)) >>),
     CborMap(<< CborField(FieldName.attStmt, CborBytes(<<9>>)),
                CborField(FieldName.authData, CborBytes(<<1, 2>>)) >>),
     AttestationItem(CborBytes(<<48, 1>>), CborBytes(<<9>>), CborBytes(<<1, 2>>)),
     AttestationItem(CborArray(<< CborText(<<97>>) >>), CborBytes(<<9>>), CborBytes(<<1, 2>>)),
     AttestationItem(CborArray(<<>>), CborBytes(<<9>>), CborText(<<97>>)),
     CborArray(<<>>),
     CborBytes(<<1, 2>>)}

\* the encoding of an item, and the encoding followed by one more byte, which
\* from_reader leaves unread
WithTrailingByte(items) ==
    {CborEncode(i) : i \in items} \cup {CborEncode(i) \o <<0>> : i \in items}

\* the encoding of an item cut short, and no bytes at all
CutShort(items) ==
    {SubSeq(CborEncode(i), 1, Len(CborEncode(i)) - 1) : i \in items} \cup {<<>>}

CompleteAssertionBytes(e) == WithTrailingByte(CompleteAssertionItems(e))

MalformedAssertionBytes ==
    {CborEncode(i) : i \in MalformedAssertionItems}
        \cup UNION {CutShort(CompleteAssertionItems(e)) : e \in AssertionEnvelopes}

CompleteAttestationBytes(e) == WithTrailingByte(CompleteAttestationItems(e))

MalformedAttestationBytes ==
    {CborEncode(i) : i \in MalformedAttestationItems}
        \cup UNION {CutShort(CompleteAttestationItems(e)) : e \in AttestationEnvelopes}

\* texts that are not standard Base64: a symbol outside the alphabet, padding
\* in the middle, trailing bits, a length that is not a multiple of 4
InvalidBase64Texts ==
    {InvalidBase64, <<0, Pad, 0, 0>>, <<0, 1, Pad, Pad>>, <<0, 0, 1, Pad>>, <<40, 20, 2>>,
     <<Pad>>}

AssertionTexts ==
    InvalidBase64Texts
        \cup {Base64Encode(b) : b \in MalformedAssertionBytes}
        \cup UNION {{Base64Encode(b) : b \in CompleteAssertionBytes(e)} : e \in AssertionEnvelopes}

AttestationTexts ==
    InvalidBase64Texts
        \cup {Base64Encode(b) : b \in MalformedAttestationBytes}
        \cup UNION {{Base64Encode(b) : b \in CompleteAttestationBytes(e)} :
                       e \in AttestationEnvelopes}

Receipts == {<<1>>, <<2, 3>>}

Attestations ==
    UNION {{[statement |-> [certificates |-> chain, receipt |-> rc], auth_data |-> ad] :
               chain \in AttestationChains(ad), rc \in Receipts} : ad \in AttestationAuthDatas}

AttestationTimes == {0, 2}

Credentials == {1, 2}

CredentialAppId == <<97>>

\* what the caller stores for a credential at enrolment
CredentialPublicKey(c) == PublicKeyPem(c)

(***************************************************************************)
(* State: store is the caller's stored counter of every credential,        *)
(* accepted the caller's log of the envelopes it accepted, call the        *)
(* operation in progress with its inputs and its result.                   *)
(***************************************************************************)
NoCall == [op |-> "none"]

Init ==
    /\ store = [c \in Credentials |-> 0]
    /\ accepted = [c \in Credentials |-> <<>>]
    /\ call = NoCall

\* Assertion::verify on caller-chosen inputs
CallAssertionVerify ==
    /\ call.op = "none"
    /\ \E self \in Assertions, cd \in Base64Texts(ClientDatas), app \in AppIds,
          pk \in PublicKeyPems, prev \in 0..MaxCounter, vs \in OptionBool :
          call' = [op |-> "Assertion.verify", self |-> self, base64_client_data |-> cd,
                   app_id |-> app, public_key |-> pk, previous_counter |-> prev,
                   verify_signature |-> vs,
                   result |-> AssertionVerify(self, cd, app, pk, prev, vs)]
    /\ UNCHANGED <<store, accepted>>

\* Attestation::verify_certificates on caller-chosen inputs
CallVerifyCertificates ==
    /\ call.op = "none"
    /\ \E chain \in Chains, root \in Roots, time \in Timestamps :
          call' = [op |-> "verify_certificates", cert_chain |-> chain, root_cert |-> root,
                   time |-> time,
                   parsed |-> verify_certificates_parsed(chain),
                   result |-> verify_certificates(chain, root, time)]
    /\ UNCHANGED <<store, accepted>>

\* Attestation::verify on caller-chosen inputs
CallAttestationVerify ==
    /\ call.op = "none"
    /\ \E self \in Attestations, ch \in Base64Texts(Challenges), app \in AppIds,
          kid \in Base64Texts({KeyIdentifier(k) : k \in Keys}), time \in AttestationTimes,
          dev \in OptionBool :
          call' = [op |-> "Attestation.verify", self |-> self, base64_challenge |-> ch,
                   app_id |-> app, key_id |-> kid, time |-> time, dev_env |-> dev,
                   result |-> AttestationVerify(self, ch, app, kid, time, dev)]
    /\ UNCHANGED <<store, accepted>>

\* Assertion::from_base64 on a text
CallAssertionFromBase64 ==
    /\ call.op = "none"
    /\ \E text \in AssertionTexts :
          call' = [op |-> "Assertion.from_base64", base64 |-> text,
                   result |-> Assertion_from_base64(text)]
    /\ UNCHANGED <<store, accepted>>

\* Attestation::from_base64 on a text
CallAttestationFromBase64 ==
    /\ call.op = "none"
    /\ \E text \in AttestationTexts :
          call' = [op |-> "Attestation.from_base64", base64 |-> text,
                   result |-> Attestation_from_base64(text)]
    /\ UNCHANGED <<store, accepted>>

\* Attestation::extract_nonce_from_cert on a certificate
CallExtractNonce ==
    /\ call.op = "none"
    /\ \E cert_der \in ExtractionCertificates :
          call' = [op |-> "extract_nonce_from_cert", cert_der |-> cert_der,
                   result |-> extract_nonce_from_cert(cert_der)]
    /\ UNCHANGED <<store, accepted>>

\* the call returns: its envelope, inputs and result are dropped
Return ==
    /\ call.op # "none"
    /\ call' = NoCall
    /\ UNCHANGED <<store, accepted>>

Next ==
    \/ CallAssertionVerify
    \/ CallVerifyCertificates
    \/ CallAttestationVerify
    \/ CallExtractNonce
    \/ CallAssertionFromBase64
    \/ CallAttestationFromBase64
    \/ Return

Spec == Init /\ [][Next]_vars

(***************************************************************************)
(* The caller's unit of work for one credential: read the stored counter,  *)
(* verify the assertion against it, persist the envelope's counter when    *)
(* the verification succeeds.  The unit is one step: nothing else touches  *)
(* the credential's counter in between.                                    *)
(***************************************************************************)
EnvelopeCounter(self) == AuthenticatorData_new(self.raw_authenticator_data).value.counter

AssertionUnit(c) ==
    /\ call.op = "none"
    /\ \E self \in Assertions, cd \in Base64Texts(Challenges) :
          LET previous_counter == store[c]
              result == AssertionVerify(self, cd, CredentialAppId, CredentialPublicKey(c),
                                        previous_counter, "None")
          IN  /\ call' = [op |-> "unit", credential |-> c, self |-> self,
                          base64_client_data |-> cd, previous_counter |-> previous_counter,
                          result |-> result]
              /\ store' = IF IsOk(result) THEN [store EXCEPT ![c] = EnvelopeCounter(self)]
                          ELSE store
              /\ accepted' = IF IsOk(result)
                             THEN [accepted EXCEPT ![c] =
                                      Append(@, [self |-> self, base64_client_data |-> cd])]
                             ELSE accepted

NextCaller == (\E c \in Credentials : AssertionUnit(c)) \/ Return

SpecCaller == Init /\ [][NextCaller]_vars

(***************************************************************************)
(* Calls for several credentials at once.  Every credential has its own    *)
(* sequence in progress, call[c]: the caller reads the stored counter,     *)
(* Assertion::verify runs on the value read, the caller persists the       *)
(* envelope's counter when the call succeeded; or Attestation::verify runs *)
(* and returns.  The steps of different credentials interleave freely; a   *)
(* credential starts its next sequence when the one before has ended.      *)
(***************************************************************************)
RequestChallenge == <<120>>

\* the envelopes a credential is asked to verify: every counter signed by the
\* credential's key, and one signed by another key
Requests(c) ==
    LET raw(n) == EncodeAssertionAuthData(Sha256(CredentialAppId), n)
    IN  {[raw_authenticator_data |-> raw(n),
          signature |-> Sign(c, AssertionNonce(raw(n), RequestChallenge))] : n \in 0..MaxCounter}
            \cup {[raw_authenticator_data |-> raw(1),
                   signature |-> Sign(3 - c, AssertionNonce(raw(1), RequestChallenge))]}

\* the attestations of a credential: counter 0 and counter 1 with a valid
\* chain, and one without certificates
EnrolmentAttestations(c) ==
    LET auth_data(n) == EncodeAttestationAuthData(Sha256(CredentialAppId), n, ProductionAAGUID,
                                                  KeyIdentifier(c))
        leaf(n) == Certificate(LeafDN, CaDN, 1, 3, CaKey, c,
                       << CredCertExtension(nonce_hash(auth_data(n), Sha256(RequestChallenge))) >>)
    IN  {[statement |-> [certificates |-> << leaf(n), GoodCa >>, receipt |-> <<1>>],
          auth_data |-> auth_data(n)] : n \in {0, 1}}
            \cup {[statement |-> [certificates |-> <<>>, receipt |-> <<1>>],
                   auth_data |-> auth_data(0)]}

InitParallel ==
    /\ store = [c \in Credentials |-> 0]
    /\ accepted = [c \in Credentials |-> <<>>]
    /\ call = [c \in Credentials |-> NoCall]

\* the caller reads the credential's stored counter for a request
ReadCounter(c) ==
    /\ call[c].op = "none"
    /\ \E self \in Requests(c) :
          call' = [call EXCEPT ![c] = [op |-> "read", self |-> self,
                                       base64_client_data |-> Base64Encode(RequestChallenge),
                                       previous_counter |-> store[c]]]
    /\ UNCHANGED <<store, accepted>>

\* mutation: the verifier writes the envelope's counter to the store itself
VerifyAssertion_Persisting(c) ==
    /\ call[c].op = "read"
    /\ LET result == AssertionVerify(call[c].self, call[c].base64_client_data, CredentialAppId,
                                     CredentialPublicKey(c), call[c].previous_counter, "None")
       IN  /\ call' = [call EXCEPT ![c] = [op |-> "verified", self |-> call[c].self,
                                           base64_client_data |-> call[c].base64_client_data,
                                           previous_counter |-> call[c].previous_counter,
                                           result |-> result]]
           /\ store' = IF IsOk(result) THEN [store EXCEPT ![c] = EnvelopeCounter(call[c].self)]
                       ELSE store
    /\ UNCHANGED accepted

\* mutation: the verifier keeps one last-seen counter for all credentials
VerifyAssertion_SharedCounter(c) ==
    /\ call[c].op = "read"
    /\ LET last_seen == CHOOSE n \in {store[d] : d \in Credentials} :
                            \A d \in Credentials : store[d] <= n
       IN  call' = [call EXCEPT ![c] =
                       [op |-> "verified", self |-> call[c].self,
                        base64_client_data |-> call[c].base64_client_data,
                        previous_counter |-> call[c].previous_counter,
                        result |-> AssertionVerify(call[c].self, call[c].base64_client_data,
                                                   CredentialAppId, CredentialPublicKey(c),
                                                   last_seen, "None")]]
    /\ UNCHANGED <<store, accepted>>

\* Assertion::verify on the envelope, the credential's app id and key and the
\* counter that was read; previous_counter is passed by value
VerifyAssertion(c) ==
    /\ call[c].op = "read"
    /\ call' = [call EXCEPT ![c] =
                   [op |-> "verified", self |-> call[c].self,
                    base64_client_data |-> call[c].base64_client_data,
                    previous_counter |-> call[c].previous_counter,
                    result |-> AssertionVerify(call[c].self, call[c].base64_client_data,
                                               CredentialAppId, CredentialPublicKey(c),
                                               call[c].previous_counter, "None")]]
    /\ UNCHANGED <<store, accepted>>

\* the caller persists the envelope's counter when the call succeeded
PersistCounter(c) ==
    /\ call[c].op = "verified"
    /\ call' = [call EXCEPT ![c] = NoCall]
    /\ store' = IF IsOk(call[c].result)
                THEN [store EXCEPT ![c] = EnvelopeCounter(call[c].self)]
                ELSE store
    /\ accepted' = IF IsOk(call[c].result)
                   THEN [accepted EXCEPT ![c] =
                            Append(@, [self |-> call[c].self,
                                       base64_client_data |-> call[c].base64_client_data])]
                   ELSE accepted

\* Attestation::verify on an attestation of the credential
VerifyAttestation(c) ==
    /\ call[c].op = "none"
    /\ \E self \in EnrolmentAttestations(c) :
          call' = [call EXCEPT ![c] =
                      [op |-> "attested", self |-> self,
                       result |-> AttestationVerify(self, Base64Encode(RequestChallenge),
                                                    CredentialAppId,
                                                    Base64Encode(KeyIdentifier(c)), 2, "None")]]
    /\ UNCHANGED <<store, accepted>>

\* the attestation call returns
ReturnAttestation(c) ==
    /\ call[c].op = "attested"
    /\ call' = [call EXCEPT ![c] = NoCall]
    /\ UNCHANGED <<store, accepted>>

NextParallel ==
    \E c \in Credentials :
        \/ ReadCounter(c)
        \/ VerifyAssertion(c)
        \/ PersistCounter(c)
        \/ VerifyAttestation(c)
        \/ ReturnAttestation(c)

SpecParallel == InitParallel /\ [][NextParallel]_vars

(***************************************************************************)
(* Properties of Assertion::verify                                         *)
(***************************************************************************)
IsAssertionCall == call.op = "Assertion.verify"

\* what the steps of the call see, read from the call's inputs
CallAuthData == AuthenticatorData_new(call.self.raw_authenticator_data)

CallClientDataDecodes == IsOk(Base64Decode(call.base64_client_data))

CallSignatureVerifies ==
    /\ call.self.signature.der_ok
    /\ EcdsaVerify(call.public_key.key,
                   AssertionNonce(call.self.raw_authenticator_data,
                                  Base64Decode(call.base64_client_data).value),
                   [r |-> call.self.signature.r, s |-> call.self.signature.s])

CallSignatureCheckOn == call.verify_signature \in {"None", "SomeTrue"}

CallAppIdMatches == Sha256(call.app_id) = CallAuthData.value.rp_id_hash

CallCounterStale == CallAuthData.value.counter <= call.previous_counter

\* every step before the app-id check passes
CallPassesSignatureSteps ==
    /\ CallClientDataDecodes
    /\ IsOk(CallAuthData)
    /\ call.public_key.pem_ok
    /\ call.self.signature.der_ok
    /\ CallSignatureCheckOn => CallSignatureVerifies

\* every step before the counter check passes
CallReachesCounterCheck == CallPassesSignatureSteps /\ CallAppIdMatches

\* C1: the counter check of Assertion.verify. A call whose envelope counter is
\* <= previous_counter (equality included) never succeeds and ends in
\* InvalidCounter as soon as it reaches the counter check; a call whose
\* counter is > previous_counter never ends in InvalidCounter and, having
\* reached the counter check, succeeds.
C1_CounterCheck ==
    (IsAssertionCall /\ IsOk(CallAuthData)) =>
        /\ CallCounterStale =>
              /\ ~IsOk(call.result)
              /\ CallReachesCounterCheck => IsErr(call.result, InvalidCounter)
        /\ ~CallCounterStale =>
              /\ ~IsErr(call.result, InvalidCounter)
              /\ CallReachesCounterCheck => IsOk(call.result)

\* C1 witness: a fully valid assertion whose counter equals the previous one
C1_Witness ==
    /\ IsAssertionCall
    /\ IsOk(CallAuthData)
    /\ CallReachesCounterCheck
    /\ CallAuthData.value.counter = call.previous_counter
    /\ call.previous_counter > 0
    /\ IsErr(call.result, InvalidCounter)

\* the error of the first failing step, the steps taken in the listed order:
\* client-data decode, public-key parse, nonce computation (cannot fail),
\* signature parse and verification, app-id check, counter check
FirstFailingAssertionStep ==
    IF ~CallClientDataDecodes THEN ClientDataDecodeFailed
    ELSE IF ~call.public_key.pem_ok THEN PublicKeyParseFailed
    ELSE IF ~call.self.signature.der_ok THEN SignatureFormatInvalid
    ELSE IF CallSignatureCheckOn /\ ~CallSignatureVerifies THEN InvalidSignature
    ELSE IF ~CallAppIdMatches THEN AppIdMismatch
    ELSE IF CallCounterStale THEN InvalidCounter
    ELSE "none"

\* C8: Assertion.verify runs its steps in the listed order and stops at the
\* first failing one: the call returns the error of the earliest failing step
\* and succeeds when no step fails; in particular an invalid signature with a
\* stale counter gives InvalidSignature and an app-id mismatch with a stale
\* counter gives AppIdMismatch.
C8_AssertionStepOrder ==
    (IsAssertionCall /\ IsOk(CallAuthData)) =>
        /\ FirstFailingAssertionStep = "none" => IsOk(call.result)
        /\ FirstFailingAssertionStep # "none" => IsErr(call.result, FirstFailingAssertionStep)
        /\ (CallPassesSignatureSteps /\ ~CallAppIdMatches /\ CallCounterStale)
              => IsErr(call.result, AppIdMismatch)
        /\ (CallClientDataDecodes /\ call.public_key.pem_ok /\ call.self.signature.der_ok
              /\ CallSignatureCheckOn /\ ~CallSignatureVerifies /\ CallCounterStale)
              => IsErr(call.result, InvalidSignature)

\* C8 witness: app-id mismatch together with a stale counter
C8_Witness ==
    /\ IsAssertionCall
    /\ IsOk(CallAuthData)
    /\ CallPassesSignatureSteps
    /\ ~CallAppIdMatches
    /\ CallCounterStale
    /\ IsErr(call.result, AppIdMismatch)

\* C10: the signature toggle. With verify_signature true or omitted, a
\* well-formed signature that does not verify over the nonce with the parsed
\* key gives InvalidSignature. With verify_signature false the call never
\* gives InvalidSignature, and the DER parse of the signature, the app-id
\* check and the counter check still decide the result.
C10_SignatureToggle ==
    (IsAssertionCall /\ CallClientDataDecodes /\ IsOk(CallAuthData) /\ call.public_key.pem_ok) =>
        /\ (CallSignatureCheckOn /\ call.self.signature.der_ok /\ ~CallSignatureVerifies)
              => IsErr(call.result, InvalidSignature)
        /\ ~CallSignatureCheckOn =>
              /\ ~IsErr(call.result, InvalidSignature)
              /\ ~call.self.signature.der_ok => IsErr(call.result, SignatureFormatInvalid)
              /\ (call.self.signature.der_ok /\ ~CallAppIdMatches)
                    => IsErr(call.result, AppIdMismatch)
              /\ (call.self.signature.der_ok /\ CallAppIdMatches /\ CallCounterStale)
                    => IsErr(call.result, InvalidCounter)
              /\ (call.self.signature.der_ok /\ CallAppIdMatches /\ ~CallCounterStale)
                    => IsOk(call.result)

\* C10 witness: the toggle is off, the signature does not verify, the counter
\* is stale and the call ends in InvalidCounter
C10_Witness ==
    /\ IsAssertionCall
    /\ call.verify_signature = "SomeFalse"
    /\ CallClientDataDecodes /\ IsOk(CallAuthData) /\ call.public_key.pem_ok
    /\ call.self.signature.der_ok
    /\ ~CallSignatureVerifies
    /\ CallCounterStale
    /\ IsErr(call.result, InvalidCounter)

(***************************************************************************)
(* Properties of the caller's unit of work                                 *)
(***************************************************************************)
\* C2: anti-replay. When the caller runs "read previous counter, verify,
\* persist the counter on success" as one step per credential, every newly
\* accepted assertion has a counter strictly greater than the counter of every
\* assertion accepted before it for that credential, and an envelope that was
\* accepted before is never accepted again: presented again it is rejected,
\* with InvalidCounter when it comes with the client data it was accepted with.
C2_AntiReplay ==
    [][\A c \in Credentials :
          /\ accepted'[c] # accepted[c] =>
                /\ accepted'[c] = Append(accepted[c], [self |-> call'.self,
                                                       base64_client_data |-> call'.base64_client_data])
                /\ store'[c] = EnvelopeCounter(call'.self)
                /\ store'[c] > store[c]
                /\ \A i \in 1..Len(accepted[c]) :
                      EnvelopeCounter(accepted[c][i].self) < EnvelopeCounter(call'.self)
          /\ (call'.op = "unit" /\ call'.credential = c) =>
                \A i \in 1..Len(accepted[c]) :
                   accepted[c][i].self = call'.self =>
                      /\ ~IsOk(call'.result)
                      /\ accepted[c][i].base64_client_data = call'.base64_client_data
                            => IsErr(call'.result, InvalidCounter)
      ]_vars

\* C2 witness: an envelope of the log is presented again, after a later one
\* was accepted, and is rejected with InvalidCounter
C2_Witness ==
    /\ call.op = "unit"
    /\ Len(accepted[call.credential]) >= 2
    /\ accepted[call.credential][1].self = call.self
    /\ accepted[call.credential][1].base64_client_data = call.base64_client_data
    /\ IsErr(call.result, InvalidCounter)
    /\ store[call.credential] = call.previous_counter

(***************************************************************************)
(* Properties of Attestation::verify_certificates                          *)
(***************************************************************************)
IsChainCall == call.op = "verify_certificates"

\* the chain is walked: it is not empty, every certificate parses and the
\* time is representable
ChainIsWalked ==
    /\ Len(call.cert_chain) > 0
    /\ AllParse(call.cert_chain)
    /\ call.time <= MaxTime

\* issuer of chain element i: the next element, or the root for the last one
CallIssuer(i) == IF i < Len(call.cert_chain) THEN call.cert_chain[i + 1] ELSE call.root_cert

InWindow(i) == call.cert_chain[i].not_before <= call.time /\ call.time <= call.cert_chain[i].not_after

Linked(i) == call.cert_chain[i].issuer = CallIssuer(i).subject

Signed(i) == SignatureVerifies(call.cert_chain[i], CallIssuer(i))

\* every chain element before i passes the validity and the issuer check
PassBefore(i) == \A j \in 1..(i - 1) : InWindow(j) /\ Linked(j)

\* C3: verify_chain checks every certificate's signature against its issuer's
\* public key: a chain with a certificate whose signature does not verify is
\* never accepted and fails with SignatureInvalid.
C3_SignaturesVerified ==
    (IsChainCall /\ ChainIsWalked) =>
        /\ IsOk(call.result) => \A i \in 1..Len(call.cert_chain) : Signed(i)
        /\ (\E i \in 1..Len(call.cert_chain) : ~Signed(i) /\ InWindow(i) /\ Linked(i) /\ PassBefore(i)
               /\ \A j \in 1..(i - 1) : Signed(j))
              => IsErr(call.result, SignatureInvalid)

\* C4: linkage to the pinned root. verify_chain succeeds only if every chain
\* element's issuer DN equals the subject DN of the next element, and the last
\* element's issuer DN equals the root's subject DN; a chain with a broken
\* link fails, with IssuerMismatch when the broken link is the first check
\* that fails.
C4_ChainLinkage ==
    IsChainCall =>
        /\ IsOk(call.result) => \A i \in 1..Len(call.cert_chain) : Linked(i)
        /\ ChainIsWalked =>
              \A i \in 1..Len(call.cert_chain) :
                 (~Linked(i) /\ InWindow(i) /\ PassBefore(i)) => IsErr(call.result, IssuerMismatch)

\* C4 witness: a two-element chain whose leaf links to the next element while
\* that element does not link to the root
C4_Witness ==
    /\ IsChainCall
    /\ ChainIsWalked
    /\ Len(call.cert_chain) = 2
    /\ InWindow(1) /\ Linked(1) /\ InWindow(2) /\ ~Linked(2)
    /\ IsErr(call.result, IssuerMismatch)

\* C5 as stated: at_time outside the window of any certificate of the chain,
\* whatever its position and whatever the linkage, gives Expired
C5_ExpiredWhateverElse ==
    (IsChainCall /\ ChainIsWalked) =>
        /\ (\E i \in 1..Len(call.cert_chain) : ~InWindow(i)) => IsErr(call.result, Expired)
        /\ IsOk(call.result) => \A i \in 1..Len(call.cert_chain) : InWindow(i)

\* C5 amended: verify_chain succeeds only if at_time is inside the window of
\* every certificate; it fails with Expired when at_time is outside the window
\* of a certificate and every certificate before it in the chain passes the
\* validity and the issuer check, and with IssuerMismatch when a certificate
\* in front of the first expired one has a broken link.
C5_ExpiredFirstFailure ==
    (IsChainCall /\ ChainIsWalked) =>
        /\ IsOk(call.result) => \A i \in 1..Len(call.cert_chain) : InWindow(i)
        /\ \A i \in 1..Len(call.cert_chain) :
              (~InWindow(i) /\ PassBefore(i)) => IsErr(call.result, Expired)
        /\ \A i \in 1..Len(call.cert_chain) :
              (~InWindow(i) /\ \E j \in 1..(i - 1) : ~Linked(j) /\ InWindow(j) /\ PassBefore(j))
                 => IsErr(call.result, IssuerMismatch)

\* C5 witness: the second element of a chain is the one outside its window,
\* one second after not_after, and the call ends in Expired
C5_Witness ==
    /\ IsChainCall
    /\ ChainIsWalked
    /\ Len(call.cert_chain) = 2
    /\ InWindow(1) /\ Linked(1)
    /\ call.time = call.cert_chain[2].not_after + 1
    /\ IsErr(call.result, Expired)

\* C6: an empty chain fails with EmptyChain for every root and every at_time,
\* and no certificate is parsed before the call returns.
C6_EmptyChain ==
    (IsChainCall /\ Len(call.cert_chain) = 0) =>
        /\ IsErr(call.result, EmptyChain)
        /\ call.parsed = 0

\* C6 witness: the empty chain with another root and an unrepresentable time
C6_Witness ==
    /\ IsChainCall
    /\ Len(call.cert_chain) = 0
    /\ call.root_cert # AppleRoot
    /\ call.time > MaxTime
    /\ IsErr(call.result, EmptyChain)

(***************************************************************************)
(* Properties of Attestation::verify                                       *)
(***************************************************************************)
IsAttestationCall == call.op = "Attestation.verify"

AttCertificates == call.self.statement.certificates

AttLeaf == AttCertificates[1]

AttAuthData == AuthenticatorData_new(call.self.auth_data)

AttChallenge == Base64Decode(call.base64_challenge)

AttKeyId == Base64Decode(call.key_id)

AttIssuer(i) == IF i < Len(AttCertificates) THEN AttCertificates[i + 1] ELSE AppleRoot

\* check 2 of the attestation steps: the chain is not empty, parses, and every
\* element is valid at the time, linked to its issuer and signed by it
AttChainValid ==
    /\ Len(AttCertificates) > 0
    /\ AllParse(AttCertificates)
    /\ call.time <= MaxTime
    /\ \A i \in 1..Len(AttCertificates) :
          /\ AttCertificates[i].not_before <= call.time
          /\ call.time <= AttCertificates[i].not_after
          /\ AttCertificates[i].issuer = AttIssuer(i).subject
          /\ SignatureVerifies(AttCertificates[i], AttIssuer(i))

AttExpectedNonce == Sha256(call.self.auth_data \o Sha256(AttChallenge.value))

AttExtractedNonce == extract_nonce_from_cert(AttLeaf)

AttNonceMatches == IsOk(AttExtractedNonce) /\ AttExtractedNonce.value = AttExpectedNonce

AttPublicKeyHashMatches == Sha256(PublicKeyBytes(AttLeaf.key)) = AttKeyId.value

AttAppIdMatches == Sha256(call.app_id) = AttAuthData.value.rp_id_hash

AttCounterZero == AttAuthData.value.counter = 0

AttAaguidValid ==
    AttAuthData.value.aaguid =
        (IF call.dev_env = "SomeTrue" THEN DevelopmentAAGUID ELSE ProductionAAGUID)

AttKeyIdMatches == AttAuthData.value.credential_id = AttKeyId.value

\* the ten checks of the attestation steps all hold
AllTenChecksHold ==
    /\ IsOk(AttChallenge)
    /\ AttChainValid
    /\ IsOk(AttAuthData)
    /\ AttNonceMatches
    /\ IsOk(AttKeyId)
    /\ AttPublicKeyHashMatches
    /\ AttAppIdMatches
    /\ AttCounterZero
    /\ AttAaguidValid
    /\ AttKeyIdMatches

FirstFailingAttestationCheck ==
    LET chain == verify_certificates(AttCertificates, AppleRoot, call.time)
    IN  IF ~IsOk(chain) THEN chain.err
        ELSE IF ~IsOk(AttAuthData) THEN AttAuthData.err
        ELSE IF ~AttNonceMatches THEN InvalidNonce
        ELSE IF ~AttPublicKeyHashMatches THEN InvalidPublicKey
        ELSE IF ~AttAppIdMatches THEN AppIdMismatch
        ELSE IF ~AttCounterZero THEN InvalidCounter
        ELSE IF ~AttAaguidValid THEN InvalidAAGUID
        ELSE IF ~AttKeyIdMatches THEN KeyIdMismatch
        ELSE "none"

\* the challenge and the key id decode, and the leaf of a valid chain carries
\* an extractable nonce
AttInputsDecode ==
    /\ IsOk(AttChallenge)
    /\ IsOk(AttKeyId)
    /\ (Len(AttCertificates) > 0 /\ AttLeaf.der_ok) => IsOk(AttExtractedNonce)

\* C9: Attestation.verify returns the error of the first failing check in the
\* listed order; an envelope whose certificate nonce and public-key hash both
\* mismatch gives InvalidNonce, not InvalidPublicKey.
C9_AttestationCheckOrder ==
    (IsAttestationCall /\ AttInputsDecode) =>
        /\ FirstFailingAttestationCheck = "none" => IsOk(call.result)
        /\ FirstFailingAttestationCheck # "none"
              => IsErr(call.result, FirstFailingAttestationCheck)

(***************************************************************************)
(* The counter and the AAGUID of an attestation                            *)
(***************************************************************************)
\* the call passes every step in front of the app-id, counter, AAGUID and
\* key-id checks of the source
AttReachesIdentityChecks ==
    /\ IsAttestationCall
    /\ IsOk(AttChallenge)
    /\ IsOk(verify_certificates(AttCertificates, AppleRoot, call.time))
    /\ IsOk(AttAuthData)
    /\ IsOk(AttKeyId)
    /\ AttPublicKeyHashMatches
    /\ AttNonceMatches

\* C11: Attestation.verify returns Ok only for authenticator data whose counter
\* is 0; a call that passes every check in front of the counter check with a
\* nonzero counter fails with InvalidCounter, and InvalidCounter is returned
\* for no other reason.  Assertion.verify has no such requirement: it accepts
\* a nonzero counter that is greater than previous_counter.
C11_AttestationCounterZero ==
    /\ IsAttestationCall =>
          /\ IsOk(call.result) => (IsOk(AttAuthData) /\ AttAuthData.value.counter = 0)
          /\ (AttReachesIdentityChecks /\ AttAppIdMatches /\ AttAuthData.value.counter # 0)
                => IsErr(call.result, InvalidCounter)
          /\ IsErr(call.result, InvalidCounter)
                => (IsOk(AttAuthData) /\ AttAuthData.value.counter # 0)
    /\ (IsAssertionCall /\ CallReachesCounterCheck /\ ~CallCounterStale) => IsOk(call.result)

\* C11 witness: an attestation that passes every other check carries counter 1
\* and is refused with InvalidCounter
C11_Witness ==
    /\ AttReachesIdentityChecks
    /\ AttAppIdMatches
    /\ AttAaguidValid
    /\ AttKeyIdMatches
    /\ AttAuthData.value.counter = 1
    /\ IsErr(call.result, InvalidCounter)

\* every check in front of the AAGUID check passes
AttReachesAaguidCheck ==
    /\ AttReachesIdentityChecks
    /\ AttAppIdMatches
    /\ AttCounterZero

\* C12: the production AAGUID passes with dev_env = false and fails with
\* dev_env = true, the development AAGUID the other way round; a call of
\* Attestation.verify without dev_env returns what the same call with
\* dev_env = false returns; a call that reaches the AAGUID check with the
\* AAGUID of the other environment fails with InvalidAAGUID, and
\* InvalidAAGUID is returned for no other reason.
C12_AaguidPolicy ==
    (IsAttestationCall /\ IsOk(AttAuthData)) =>
        /\ AttAuthData.value.aaguid = ProductionAAGUID
              => (is_valid_aaguid(AttAuthData.value, FALSE) /\ ~is_valid_aaguid(AttAuthData.value, TRUE))
        /\ AttAuthData.value.aaguid = DevelopmentAAGUID
              => (is_valid_aaguid(AttAuthData.value, TRUE) /\ ~is_valid_aaguid(AttAuthData.value, FALSE))
        /\ call.dev_env = "None"
              => call.result = AttestationVerify(call.self, call.base64_challenge, call.app_id,
                                                 call.key_id, call.time, "SomeFalse")
        /\ (AttReachesAaguidCheck /\ ~AttAaguidValid) => IsErr(call.result, InvalidAAGUID)
        /\ (AttReachesAaguidCheck /\ AttAaguidValid) => ~IsErr(call.result, InvalidAAGUID)
        /\ IsErr(call.result, InvalidAAGUID) => ~AttAaguidValid

\* C12 witness: without dev_env an attestation that carries the development
\* AAGUID and passes every other check is refused with InvalidAAGUID
C12_Witness ==
    /\ AttReachesAaguidCheck
    /\ AttKeyIdMatches
    /\ call.dev_env = "None"
    /\ AttAuthData.value.aaguid = DevelopmentAAGUID
    /\ IsErr(call.result, InvalidAAGUID)

(***************************************************************************)
(* Properties of Attestation::extract_nonce_from_cert                      *)
(***************************************************************************)
IsExtractCall == call.op = "extract_nonce_from_cert"

\* positions of the extensions of the certificate that carry the credCert
\* object identifier
CredCertPositions(cert) ==
    {i \in 1..Len(cert.extensions) : cert.extensions[i].oid = CredCertOid}

\* C13: on a certificate that parses and has no extension with the credCert
\* object identifier, extract_nonce_from_cert fails with ExtensionNotFound
\* (the source's message "Certificate did not contain credCert extension")
\* and does not panic, whatever other extensions the certificate carries; so
\* does an Attestation.verify that reaches the extraction with such a leaf.
C13_ExtensionNotFound ==
    /\ (IsExtractCall /\ call.cert_der.der_ok /\ CredCertPositions(call.cert_der) = {})
          => IsErr(call.result, ExtensionNotFound)
    /\ (IsAttestationCall /\ IsOk(AttChallenge)
           /\ IsOk(verify_certificates(AttCertificates, AppleRoot, call.time))
           /\ IsOk(AttAuthData) /\ IsOk(AttKeyId) /\ AttPublicKeyHashMatches
           /\ CredCertPositions(AttLeaf) = {})
          => IsErr(call.result, ExtensionNotFound)

\* C13 witness: the certificate carries two extensions with another object
\* identifier, one of them with a value whose context-tagged element is
\* shorter than the 2-byte prefix
C13_Witness ==
    /\ IsExtractCall
    /\ call.cert_der.der_ok
    /\ Len(call.cert_der.extensions) = 2
    /\ CredCertPositions(call.cert_der) = {}
    /\ call.cert_der.extensions[1].value = BerSequence(<< BerElement(TRUE, <<4>>) >>)
    /\ IsErr(call.result, ExtensionNotFound)

\* the value of the first extension that carries the credCert object identifier
CredCertValue(cert) ==
    cert.extensions[CHOOSE i \in CredCertPositions(cert) :
                        \A j \in CredCertPositions(cert) : i <= j].value

\* positions of the context-tagged elements of a sequence
UnknownPositions(elements) == {i \in 1..Len(elements) : elements[i].unknown}

\* the content bytes of the first context-tagged element of a sequence
FirstUnknownData(elements) ==
    elements[CHOOSE i \in UnknownPositions(elements) :
                 \A j \in UnknownPositions(elements) : i <= j].data

\* C19: nonce extraction is total on every credCert extension value: a value
\* that does not parse as BER or is not a sequence gives ExpectedSequence (the
\* source's ExpectedASN1Node); a sequence without a context-tagged element,
\* or whose first context-tagged element has fewer than 2 bytes of data, gives
\* ValueExtractionFailed (the source's FailedToExtractValueFromASN1Node);
\* otherwise the result is the data of that element without its first 2
\* bytes.  No value makes the extraction panic.
C19_NonceExtractionTotal ==
    (IsExtractCall /\ call.cert_der.der_ok /\ CredCertPositions(call.cert_der) # {}) =>
        LET value == CredCertValue(call.cert_der)
        IN  /\ call.result # Panic
            /\ IF value.ber # "sequence" THEN IsErr(call.result, ExpectedASN1Node)
               ELSE IF UnknownPositions(value.elements) = {}
                    THEN IsErr(call.result, FailedToExtractValueFromASN1Node)
               ELSE LET data == FirstUnknownData(value.elements)
                    IN  IF Len(data) < NonceOffset
                        THEN IsErr(call.result, FailedToExtractValueFromASN1Node)
                        ELSE call.result = Ok(SubSeq(data, NonceOffset + 1, Len(data)))

\* the same property for the values whose first context-tagged element holds
\* at least the 2-byte prefix: the part of C19 the source satisfies
C19_NonceExtractionLongEnough ==
    (IsExtractCall /\ call.cert_der.der_ok /\ CredCertPositions(call.cert_der) # {}) =>
        LET value == CredCertValue(call.cert_der)
        IN  IF value.ber # "sequence" THEN IsErr(call.result, ExpectedASN1Node)
            ELSE IF UnknownPositions(value.elements) = {}
                 THEN IsErr(call.result, FailedToExtractValueFromASN1Node)
            ELSE LET data == FirstUnknownData(value.elements)
                 IN  Len(data) >= NonceOffset
                        => call.result = Ok(SubSeq(data, NonceOffset + 1, Len(data)))

(***************************************************************************)
(* Properties of Assertion::from_base64 and Attestation::from_base64       *)
(***************************************************************************)
\* the outcome of a decoding call on a text, given for every envelope the
\* bytes that hold it complete, the bytes that hold no complete envelope, and
\* the error of the envelope's second step
DecodesStrictly(text, result, complete, malformed, parseFailed) ==
    /\ result.tag \in {"Ok", "Err"}
    /\ text \in InvalidBase64Texts <=> IsErr(result, Base64DecodeFailed)
    /\ text \in {Base64Encode(b) : b \in malformed} <=> IsErr(result, parseFailed)
    /\ \A e \in DOMAIN complete :
          text \in {Base64Encode(b) : b \in complete[e]} <=> result = Ok(e)
    /\ IsOk(result) => result.value \in DOMAIN complete

\* C14: Assertion::from_base64 and Attestation::from_base64 return Ok or Err
\* on every text, never a panic; a text that is not standard Base64 gives the
\* Base64 error (InvalidBase64), Base64 of bytes that are not a CBOR map with
\* every required field gives the parse error (MalformedEnvelope), and these
\* are two different errors, each returned for its own kind of input only;
\* an Ok result is the whole envelope that was encoded, every field present.
C14_EnvelopeDecoding ==
    /\ Base64DecodeFailed \notin {AssertionParseFailed, AttestationParseFailed}
    /\ call.op = "Assertion.from_base64" =>
          DecodesStrictly(call.base64, call.result,
                          [e \in AssertionEnvelopes |-> CompleteAssertionBytes(e)],
                          MalformedAssertionBytes, AssertionParseFailed)
    /\ call.op = "Attestation.from_base64" =>
          DecodesStrictly(call.base64, call.result,
                          [e \in AttestationEnvelopes |-> CompleteAttestationBytes(e)],
                          MalformedAttestationBytes, AttestationParseFailed)

\* C14 witness: an attestation envelope whose statement lacks the receipt is
\* refused with the parse error
C14_Witness ==
    /\ call.op = "Attestation.from_base64"
    /\ call.base64 =
          Base64Encode(CborEncode(
              CborMap(<< CborField(FieldName.attStmt,
                                   CborMap(<< CborField(FieldName.x5c, CborArray(<<>>)) >>)),
                         CborField(FieldName.authData, CborBytes(<<1, 2>>)) >>)))
    /\ IsErr(call.result, AttestationParseFailed)

\* an assertion envelope is decoded whole from the text that encodes it
C14_WitnessComplete ==
    /\ call.op = "Assertion.from_base64"
    /\ IsOk(call.result)
    /\ call.result.value = [raw_authenticator_data |-> <<1, 2, 3>>, signature |-> <<48, 0>>]

(***************************************************************************)
(* The result of Assertion::verify                                         *)
(***************************************************************************)
\* bytes is the integer at full width: the integer behind leading zeros
IsFullWidth(bytes, integer) ==
    /\ Len(bytes) = FieldBytesLen
    /\ SubSeq(bytes, FieldBytesLen - Len(integer) + 1, FieldBytesLen) = integer
    /\ \A i \in 1..(FieldBytesLen - Len(integer)) : bytes[i] = 0

\* C15: every Ok result of Assertion.verify is the 4-tuple (signature_r,
\* signature_s, public_key_x, public_key_y) in that order, each component
\* exactly 32 bytes: r and s of the envelope's signature at full width, x and y
\* of the supplied public key; the conversion of the four components to
\* 32-byte arrays in prove_assertion succeeds on it.
C15_ResultComponents ==
    (IsAssertionCall /\ IsOk(call.result)) =>
        /\ Len(call.result.value) = 4
        /\ \A i \in 1..4 : Len(call.result.value[i]) = 32
        /\ IsFullWidth(call.result.value[1], call.self.signature.r)
        /\ IsFullWidth(call.result.value[2], call.self.signature.s)
        /\ call.result.value[3] = SubSeq(PublicKeyBytes(call.public_key.key), 2, 33)
        /\ call.result.value[4] = SubSeq(PublicKeyBytes(call.public_key.key), 34, 65)
        /\ SignatureData(call.result.value)
              = Ok([signature_r |-> call.result.value[1], signature_s |-> call.result.value[2],
                    public_key_x |-> call.result.value[3], public_key_y |-> call.result.value[4]])

\* C15 witness: with the signature check switched off an envelope whose DER
\* signature holds short integers is accepted
C15_Witness ==
    /\ IsAssertionCall
    /\ IsOk(call.result)
    /\ call.self.signature = SmallSignature
    /\ call.result.value[1] = [i \in 1..32 |-> IF i = 32 THEN 1 ELSE 0]
    /\ call.result.value[3] = PublicKeyX(call.public_key.key)

(***************************************************************************)
(* The errors of Attestation::verify_certificates                          *)
(***************************************************************************)
\* element i of the chain fails a check: validity at the time, issuer link
\* or signature
Offends(chain, root, time, i) ==
    LET issuer == IF i < Len(chain) THEN chain[i + 1] ELSE root
    IN  \/ ~(chain[i].not_before <= time /\ time <= chain[i].not_after)
        \/ chain[i].issuer # issuer.subject
        \/ ~SignatureVerifies(chain[i], issuer)

\* the position of the first element that fails a check, 0 when none does
OffendingIndex(chain, root, time) ==
    LET bad == {i \in 1..Len(chain) : Offends(chain, root, time, i)}
    IN  IF bad = {} THEN 0 ELSE CHOOSE i \in bad : \A j \in bad : i <= j

\* C16: every failure of the chain walk is reported with the index of the
\* first certificate that failed a check: the error value of the call tells
\* that position, so no chain that first fails at another position gives the
\* same error value for the same root and time.
C16_ErrorCarriesIndex ==
    (IsChainCall /\ ChainIsWalked /\ ~IsOk(call.result)) =>
        \A other \in Chains :
            (/\ Len(other) > 0
             /\ AllParse(other)
             /\ verify_certificates(other, call.root_cert, call.time) = call.result)
                => OffendingIndex(other, call.root_cert, call.time)
                     = OffendingIndex(call.cert_chain, call.root_cert, call.time)

(***************************************************************************)
(* Properties of calls for several credentials                             *)
(***************************************************************************)
\* the step runs Assertion::verify for credential c
IsAssertionVerifyStep(c) == call[c].op = "read" /\ call'[c].op = "verified"

\* the step runs Attestation::verify for credential c
IsAttestationVerifyStep(c) == call[c].op = "none" /\ call'[c].op = "attested"

\* C17: the verifiers keep no state.  A step that runs Assertion.verify or
\* Attestation.verify leaves every stored counter and the caller's log as
\* they are, whether the call succeeds or fails, and its result is fixed by
\* the arguments of the call alone; a stored counter changes only in the step
\* in which the caller persists the counter of an envelope that was accepted.
C17_VerifiersKeepNoState ==
    [][\A c \in Credentials :
          /\ IsAssertionVerifyStep(c) =>
                /\ store' = store
                /\ accepted' = accepted
                /\ call'[c].result =
                      AssertionVerify(call[c].self, call[c].base64_client_data, CredentialAppId,
                                      CredentialPublicKey(c), call[c].previous_counter, "None")
          /\ IsAttestationVerifyStep(c) =>
                /\ store' = store
                /\ accepted' = accepted
                /\ call'[c].result =
                      AttestationVerify(call'[c].self, Base64Encode(RequestChallenge),
                                        CredentialAppId, Base64Encode(KeyIdentifier(c)), 2, "None")
          /\ store'[c] # store[c] =>
                /\ call[c].op = "verified"
                /\ IsOk(call[c].result)
                /\ call'[c].op = "none"
                /\ store'[c] = EnvelopeCounter(call[c].self)]_vars

\* C17 witness: Assertion.verify has accepted an envelope with counter 2 for a
\* credential whose stored counter is still 1, while the other credential's
\* Attestation.verify has failed; no stored counter has moved
C17_Witness ==
    /\ call[1].op = "verified"
    /\ IsOk(call[1].result)
    /\ EnvelopeCounter(call[1].self) = 2
    /\ store[1] = 1
    /\ call[2].op = "attested"
    /\ ~IsOk(call[2].result)

\* the components of credential c
Own(c) == << store[c], accepted[c], call[c] >>

\* C18: calls for different credentials need no coordination.  Under every
\* interleaving of the sequences of different credentials a step changes the
\* components of one credential only; the counter a sequence has read is
\* still the stored one while the sequence is in progress; the result of its
\* call is the result Assertion.verify gives on the stored counter; and the
\* counter persisted at its end is the envelope's when the call succeeded and
\* the stored one otherwise: what the sequence returns and stores when it
\* runs alone.
C18_NoCoordination ==
    [][\A c \in Credentials :
          /\ Own(c)' # Own(c) => \A d \in Credentials \ {c} : Own(d)' = Own(d)
          /\ call'[c].op \in {"read", "verified"} => call'[c].previous_counter = store'[c]
          /\ call'[c].op = "verified" =>
                call'[c].result =
                    AssertionVerify(call'[c].self, call'[c].base64_client_data, CredentialAppId,
                                    CredentialPublicKey(c), store'[c], "None")
          /\ (call[c].op = "verified" /\ call'[c].op = "none") =>
                store'[c] = IF IsOk(call[c].result) THEN EnvelopeCounter(call[c].self)
                            ELSE store[c]]_vars

\* C18 witness: the sequences of both credentials are in progress, one behind
\* its call and one in front of it, after both credentials have had envelopes
\* accepted
C18_Witness ==
    /\ call[1].op = "verified"
    /\ IsOk(call[1].result)
    /\ call[2].op = "read"
    /\ store[1] = 1
    /\ store[2] = 2

(***************************************************************************)
(* Attestation::verify on an envelope without certificates                 *)
(***************************************************************************)
\* C20: Attestation.verify does not read certificates[0] of an envelope whose
\* certificate list is empty: the call ends in an error result, never in a
\* panic, and the error is the one of the chain validation (EmptyChain)
\* whenever the challenge decodes, whatever the other inputs are.
C20_EmptyChainNoLeafRead ==
    (IsAttestationCall /\ Len(AttCertificates) = 0) =>
        /\ call.result.tag = "Err"
        /\ call.result # Panic
        /\ IsOk(AttChallenge) => IsErr(call.result, EmptyChain)
        /\ ~IsOk(AttChallenge) => IsErr(call.result, ChallengeDecodeFailed)

\* C20 witness: an envelope without certificates whose authenticator data and
\* other inputs pass their checks is refused with EmptyChain
C20_Witness ==
    /\ IsAttestationCall
    /\ Len(AttCertificates) = 0
    /\ IsOk(AttChallenge)
    /\ IsOk(AttKeyId)
    /\ IsOk(AttAuthData)
    /\ AttAppIdMatches
    /\ AttCounterZero
    /\ AttKeyIdMatches
    /\ call.time <= MaxTime
    /\ IsErr(call.result, EmptyChain)

====
